---- MODULE Spec2Model ----
(***************************************************************************)
(* Typing-session state machine and statistics engine of TypeFlow AI.      *)
(*                                                                         *)
(* The App component (src/unnamed/part_000) is modelled as React runs it:  *)
(* one event handler at a time, every handler reading the state of the     *)
(* last committed render and its state updates committed together when it  *)
(* returns.  Functions that outlive the render that created them (the      *)
(* interval callback of the timer effect, the finishGame handed to         *)
(* setTimeout) keep the values of that render; those captured values are   *)
(* state of the model (timerEnv, timeouts).                                *)
(*                                                                         *)
(* Strings are sequences of one-character strings.                         *)
(***************************************************************************)
EXTENDS Integers, Sequences, FiniteSets, TLC

----------------------------------------------------------------------------
(* Bounds of the model.  The list lengths of the source (100, 30 and 50)   *)
(* and the configuration values offered by its buttons are scaled down.    *)

\* longest Current Input Buffer that is typed
MaxInput == 1
\* generateWords(100) of the fixed-duration mode
TimeBufferCount == 1
\* generateWords(30) of the fallback
FallbackCount == 1
\* cleanWords.slice(0, 50)
AiSliceLimit == 1
\* config.duration ranges over 1..MaxDuration
MaxDuration == 2
\* config.wordCount ranges over 1..MaxWordCount
MaxWordCount == 1
\* the count-up counter stops being advanced here
MaxElapsed == 1
\* longest response text of the word-generation service
MaxText == 3
\* word-generation requests outstanding at the same time
MaxOutstanding == 1
\* finishGame calls waiting in the timer queue at the same time
MaxDeferred == 1
\* events handled between a setTimeout(finishGame, 0) and its callback
MaxRace == 1

----------------------------------------------------------------------------
(* Vocabulary, keys and texts                                              *)

\* the static vocabulary, every word lowercase alphabetic
COMMON_WORDS == << <<"a">>, <<"a", "b">> >>

\* printable characters other than the space (e.key.length === 1)
Chars == {"a"}

Keys == Chars \cup {" ", "Backspace", "Tab", "Escape"}

\* e.key.length === 1
IsSingleChar(key) == key \in Chars \cup {" "}

GameModes == {"time", "words", "ai"}

GameStatuses == {"idle", "running", "finished"}

Topics == {<<>>, <<"s">>}

\* characters of a response of the word-generation service
TextChars == {"B", " ", "1"}

Whitespace == {" "}

Letters == {"b", "B"}

SeqsUpTo(S, n) == UNION {[1..k -> S] : k \in 0..n}

Texts == SeqsUpTo(TextChars, MaxText)

Min(a, b) == IF a < b THEN a ELSE b

Max(a, b) == IF a > b THEN a ELSE b

----------------------------------------------------------------------------
VARIABLES
  config,      \* TestConfig: mode, duration, wordCount, aiTopic
  status,      \* GameStatus
  words,       \* Target Word Sequence
  history,     \* Typed History
  currInput,   \* Current Input Buffer
  timeLeft,    \* counter: counts down (time mode) or up (other modes)
  results,     \* <<>> for null, <<stats>> otherwise
  aiLoading,
  pendingCur,  \* requests issued by the initGame of the current session
  pendingOld,  \* requests issued by an initGame of an earlier session
  timerEnv,    \* <<>>, or <<values captured by the interval callback>>
  timeouts,    \* values captured by each queued setTimeout(finishGame, 0)
  raced,       \* events handled since the oldest queued timeout was set
  lastCommit   \* <<>>, or <<history and currInput before the word-boundary
               \* commit that was the last event, and whether a Backspace
               \* has been handled since>>

vars == <<config, status, words, history, currInput, timeLeft, results,
          aiLoading, pendingCur, pendingOld, timerEnv, timeouts, raced,
          lastCommit>>

----------------------------------------------------------------------------
(* utils.ts                                                                *)

\* the lists generateWords(count) can return
generateWords(count) == [1..count -> {COMMON_WORDS[i] : i \in 1..Len(COMMON_WORDS)}]

\* Math.round of the quotient n / d of two naturals, d > 0 (half rounds up).
\* The source divides doubles, (correctChars / 5) / (timeElapsed / 60); for
\* the values of this model (at most 40 characters, counters up to 12 and the
\* durations 15, 30, 60, 120) the double quotient rounds to the same integer
\* as the exact one.
RoundDiv(n, d) == (2 * n + d) \div (2 * d)

\* calculateWPM with Math.floor in the place of Math.round
calculateWPM_Floor(correctChars, timeElapsed) ==
  IF timeElapsed = 0 THEN 0
  ELSE (correctChars * 60) \div (5 * timeElapsed)

\* words = correctChars / 5, minutes = timeElapsed / 60, round(words / minutes)
calculateWPM(correctChars, timeElapsed) ==
  IF timeElapsed = 0 THEN 0
  ELSE RoundDiv(correctChars * 60, 5 * timeElapsed)

----------------------------------------------------------------------------
(* calculateStats                                                          *)

ZeroCounts == [correctChars |-> 0, incorrectChars |-> 0, extraChars |-> 0,
               missedChars |-> 0]

RECURSIVE CompareChars(_, _, _, _)
\* the for loop over the characters of typedWord, from position i
CompareChars(typedWord, targetWord, i, acc) ==
  IF i > Len(typedWord) THEN acc
  ELSE IF i <= Len(targetWord)
       THEN IF typedWord[i] = targetWord[i]
            THEN CompareChars(typedWord, targetWord, i + 1,
                              [acc EXCEPT !.correctChars = @ + 1])
            ELSE CompareChars(typedWord, targetWord, i + 1,
                              [acc EXCEPT !.incorrectChars = @ + 1])
       ELSE CompareChars(typedWord, targetWord, i + 1,
                         [acc EXCEPT !.extraChars = @ + 1])

\* the body of history.forEach without the count of missed characters
CountWord_NoMissed(typedWord, targetWord, acc) ==
  CompareChars(typedWord, targetWord, 1, acc)

\* the body of history.forEach for one typed word
CountWord(typedWord, targetWord, acc) ==
  LET c == CompareChars(typedWord, targetWord, 1, acc)
  IN IF Len(typedWord) < Len(targetWord)
     THEN [c EXCEPT !.missedChars = @ + (Len(targetWord) - Len(typedWord))]
     ELSE c

RECURSIVE CountFrom(_, _, _, _)
\* history.forEach((typedWord, idx) => ...), from index idx
CountFrom(h, w, idx, acc) ==
  IF idx > Len(h) THEN acc
  ELSE CountFrom(h, w, idx + 1, CountWord(h[idx], w[idx], acc))

CountChars(h, w) == CountFrom(h, w, 1, ZeroCounts)

\* words[idx] is undefined for some idx of history: targetWord.length throws
StatsThrows(env) == Len(env.history) > Len(env.words)

\* the Stats handed to setResults, from the values the closure holds
calculateStats(env) ==
  LET timeElapsed == IF env.config.mode = "time"
                     THEN env.config.duration - env.timeLeft
                     ELSE env.timeLeft
      c == CountChars(env.history, env.words)
      totalTyped == c.correctChars + c.incorrectChars + c.extraChars
      basis == IF env.config.mode = "time" THEN env.config.duration
               ELSE timeElapsed
  IN [wpm |-> calculateWPM(c.correctChars, basis),
      rawWpm |-> calculateWPM(totalTyped, basis),
      accuracy |-> IF totalTyped > 0
                   THEN [num |-> c.correctChars * 100, den |-> totalTyped]
                   ELSE [num |-> 0, den |-> 1],
      correctChars |-> c.correctChars,
      incorrectChars |-> c.incorrectChars,
      missedChars |-> c.missedChars,
      extraChars |-> c.extraChars,
      timeElapsed |-> timeElapsed]

----------------------------------------------------------------------------
(* fetchAIWords: sanitization of the response text                         *)

\* text.replace(/[^a-zA-Z\s]/g, '')
StripText(text) == SelectSeq(text, LAMBDA c : c \in Letters \cup Whitespace)

LowerChar(c) == IF c = "B" THEN "b" ELSE c

\* toLowerCase()
toLowerCase(text) == [i \in 1..Len(text) |-> LowerChar(text[i])]

RECURSIVE SplitFrom(_, _, _, _)
\* split(/\s+/): a run of whitespace ends the current token
SplitFrom(text, i, cur, out) ==
  IF i > Len(text) THEN Append(out, cur)
  ELSE IF text[i] \in Whitespace
       THEN IF i > 1 /\ text[i - 1] \in Whitespace
            THEN SplitFrom(text, i + 1, cur, out)
            ELSE SplitFrom(text, i + 1, <<>>, Append(out, cur))
       ELSE SplitFrom(text, i + 1, Append(cur, text[i]), out)

split(text) == SplitFrom(text, 1, <<>>, <<>>)

\* cleanWords without the filter(w => w.length > 0)
cleanWords_NoFilter(text) ==
  LET tokens == split(toLowerCase(StripText(text)))
  IN SubSeq(tokens, 1, Min(Len(tokens), AiSliceLimit))

\* the list handed to setWords on a response with this text
cleanWords(text) ==
  LET tokens == SelectSeq(split(toLowerCase(StripText(text))),
                          LAMBDA w : Len(w) > 0)
  IN SubSeq(tokens, 1, Min(Len(tokens), AiSliceLimit))

----------------------------------------------------------------------------
(* Rendering                                                               *)

\* the values a function created by the render of the next state closes over
EnvNext == [history |-> history', words |-> words', timeLeft |-> timeLeft',
            config |-> config']

\* the values the functions of the current render close over
Env == [history |-> history, words |-> words, timeLeft |-> timeLeft,
        config |-> config]

\* the live WPM reducer reads words[i].length for every index i of history
\* while running; a missing word throws during render and unmounts the app
Crashed == status = "running" /\ Len(history) > Len(words)

\* the timer effect, deps [status, config.mode]: the interval is created by
\* the render in which status became running and cleared when it leaves it
TimerEffect ==
  timerEnv' = IF status' = "running"
              THEN IF status = "running" THEN timerEnv ELSE <<EnvNext>>
              ELSE <<>>

\* an event other than the timeout itself is handled: a zero-delay timeout
\* lets at most MaxRace of them pass before it runs
Dispatch ==
  /\ timeouts # <<>> => raced < MaxRace
  /\ raced' = IF timeouts # <<>> /\ timeouts' # <<>> THEN raced + 1 ELSE 0

\* an event other than a key is handled: the last event is no commit
NoCommit == lastCommit' = <<>>

\* a key event is handled: a Space that appended to history is remembered
\* with the values it found, the Backspace right after it is marked
KeyCommit(key) ==
  lastCommit' =
    IF key = " " /\ history' # history
    THEN <<[history |-> history, currInput |-> currInput, rewound |-> FALSE]>>
    ELSE IF key = "Backspace" /\ lastCommit # <<>> /\ ~lastCommit[1].rewound
    THEN <<[lastCommit[1] EXCEPT !.rewound = TRUE]>>
    ELSE <<>>

\* the finishGame a commit queued runs, which is no event of its own: the
\* commit still waits for the key that follows it, a Backspace already seen
\* is over
DeferredCommit ==
  lastCommit' = IF lastCommit # <<>> /\ ~lastCommit[1].rewound
                THEN lastCommit ELSE <<>>

----------------------------------------------------------------------------
Configs == [mode : GameModes, duration : 1..MaxDuration,
            wordCount : 1..MaxWordCount, aiTopic : Topics]

\* initGame without its setResults(null)
initGame_KeepResults(cfg) ==
  /\ status' = "idle"
  /\ history' = <<>>
  /\ currInput' = <<>>
  /\ UNCHANGED results
  /\ pendingOld' = pendingOld + pendingCur
  /\ IF cfg.mode = "time"
     THEN /\ timeLeft' = cfg.duration
          /\ words' \in generateWords(TimeBufferCount)
          /\ pendingCur' = 0
          /\ UNCHANGED aiLoading
     ELSE IF cfg.mode = "words"
     THEN /\ timeLeft' = 0
          /\ words' \in generateWords(cfg.wordCount)
          /\ pendingCur' = 0
          /\ UNCHANGED aiLoading
     ELSE IF cfg.aiTopic = <<>>
     THEN /\ words' \in generateWords(FallbackCount)
          /\ pendingCur' = 0
          /\ UNCHANGED <<timeLeft, aiLoading>>
     ELSE /\ pendingOld + pendingCur < MaxOutstanding
          /\ aiLoading' = TRUE
          /\ pendingCur' = 1
          /\ UNCHANGED <<timeLeft, words>>
  /\ UNCHANGED timeouts

\* initGame with configuration cfg, up to the await of the service call
initGame(cfg) ==
  /\ status' = "idle"
  /\ history' = <<>>
  /\ currInput' = <<>>
  /\ results' = <<>>
  /\ pendingOld' = pendingOld + pendingCur
  /\ IF cfg.mode = "time"
     THEN /\ timeLeft' = cfg.duration
          /\ words' \in generateWords(TimeBufferCount)
          /\ pendingCur' = 0
          /\ UNCHANGED aiLoading
     ELSE IF cfg.mode = "words"
     THEN /\ timeLeft' = 0
          /\ words' \in generateWords(cfg.wordCount)
          /\ pendingCur' = 0
          /\ UNCHANGED aiLoading
     ELSE IF cfg.aiTopic = <<>>
     THEN /\ words' \in generateWords(FallbackCount)
          /\ pendingCur' = 0
          /\ UNCHANGED <<timeLeft, aiLoading>>
     ELSE /\ pendingOld + pendingCur < MaxOutstanding
          /\ aiLoading' = TRUE
          /\ pendingCur' = 1
          /\ UNCHANGED <<timeLeft, words>>
  /\ UNCHANGED timeouts

Init ==
  /\ config \in {c \in Configs : c.mode = "time" /\ c.aiTopic = <<>>}
  /\ status = "idle"
  /\ words \in generateWords(TimeBufferCount)
  /\ history = <<>>
  /\ currInput = <<>>
  /\ timeLeft = config.duration
  /\ results = <<>>
  /\ aiLoading = FALSE
  /\ pendingCur = 0
  /\ pendingOld = 0
  /\ timerEnv = <<>>
  /\ timeouts = <<>>
  /\ raced = 0
  /\ lastCommit = <<>>

----------------------------------------------------------------------------
(* Game logic                                                              *)

\* finishGame as the closure holding env runs it: setStatus(FINISHED), then
\* calculateStats, whose setResults is not reached when it throws
finishGame(env) ==
  /\ status' = "finished"
  /\ results' = IF StatsThrows(env) THEN results ELSE <<calculateStats(env)>>

\* handleKeyDown with one slip: "norestore", Backspace on an empty buffer pops
\* history without setCurrInput(prevWord); "deferred", the last commit leaves
\* setStatus(FINISHED) to the queued finishGame; "unguarded", the typing
\* branch appends the character whatever modifier is held
handleKeyDownWith(key, mod, slip) ==
  /\ ~Crashed
  /\ IF status = "finished"
     THEN IF key = "Tab"
          THEN initGame(config) /\ UNCHANGED config
          ELSE UNCHANGED <<config, status, words, history, currInput,
                           timeLeft, results, aiLoading, pendingCur,
                           pendingOld, timeouts>>
     ELSE LET started == IF status = "idle" /\ ~mod /\ IsSingleChar(key)
                         THEN "running" ELSE status
          IN
          IF key = "Tab"
          THEN initGame(config) /\ UNCHANGED config
          ELSE IF key = "Backspace"
          THEN /\ IF Len(currInput) > 0
                  THEN /\ currInput' = SubSeq(currInput, 1, Len(currInput) - 1)
                       /\ UNCHANGED history
                  ELSE IF Len(history) > 0
                  THEN /\ history' = SubSeq(history, 1, Len(history) - 1)
                       /\ currInput' = IF slip = "norestore"
                                       THEN <<>> ELSE history[Len(history)]
                  ELSE UNCHANGED <<history, currInput>>
               /\ status' = started
               /\ UNCHANGED <<config, words, timeLeft, results, aiLoading,
                              pendingCur, pendingOld, timeouts>>
          ELSE IF key = " "
          THEN IF Len(currInput) = 0 /\ Len(history) = 0
               THEN /\ status' = started
                    /\ UNCHANGED <<config, words, history, currInput,
                                   timeLeft, results, aiLoading, pendingCur,
                                   pendingOld, timeouts>>
               ELSE LET nextHistory == Append(history, currInput)
                    IN /\ history' = nextHistory
                       /\ currInput' = <<>>
                       /\ IF config.mode # "time"
                             /\ Len(nextHistory) >= Len(words)
                          THEN /\ Len(timeouts) < MaxDeferred
                               /\ status' = IF slip = "deferred"
                                            THEN started ELSE "finished"
                               /\ timeouts' = Append(timeouts, Env)
                          ELSE /\ status' = started
                               /\ UNCHANGED timeouts
                       /\ UNCHANGED <<config, words, timeLeft, results,
                                      aiLoading, pendingCur, pendingOld>>
          ELSE IF key \in Chars /\ (~mod \/ slip = "unguarded")
          THEN /\ Len(currInput) < MaxInput
               /\ currInput' = Append(currInput, key)
               /\ status' = started
               /\ UNCHANGED <<config, words, history, timeLeft, results,
                              aiLoading, pendingCur, pendingOld, timeouts>>
          ELSE UNCHANGED <<config, status, words, history, currInput,
                           timeLeft, results, aiLoading, pendingCur,
                           pendingOld, timeouts>>
  /\ TimerEffect
  /\ Dispatch
  /\ KeyCommit(key)

handleKeyDown_Unguarded(key, mod) == handleKeyDownWith(key, mod, "unguarded")

handleKeyDown_NoRestore(key, mod) == handleKeyDownWith(key, mod, "norestore")

handleKeyDown_DeferredFinish(key, mod) == handleKeyDownWith(key, mod, "deferred")

\* handleKeyDown for the key e.key; mod: ctrlKey, altKey or metaKey is held
handleKeyDown(key, mod) ==
  /\ ~Crashed
  /\ IF status = "finished"
     THEN IF key = "Tab"
          THEN initGame(config) /\ UNCHANGED config
          ELSE UNCHANGED <<config, status, words, history, currInput,
                           timeLeft, results, aiLoading, pendingCur,
                           pendingOld, timeouts>>
     ELSE LET \* startGame, called on the first single-character key
              started == IF status = "idle" /\ ~mod /\ IsSingleChar(key)
                         THEN "running" ELSE status
          IN
          IF key = "Tab"
          THEN initGame(config) /\ UNCHANGED config
          ELSE IF key = "Backspace"
          THEN /\ IF Len(currInput) > 0
                  THEN /\ currInput' = SubSeq(currInput, 1, Len(currInput) - 1)
                       /\ UNCHANGED history
                  ELSE IF Len(history) > 0
                  THEN /\ history' = SubSeq(history, 1, Len(history) - 1)
                       /\ currInput' = history[Len(history)]
                  ELSE UNCHANGED <<history, currInput>>
               /\ status' = started
               /\ UNCHANGED <<config, words, timeLeft, results, aiLoading,
                              pendingCur, pendingOld, timeouts>>
          ELSE IF key = " "
          THEN IF Len(currInput) = 0 /\ Len(history) = 0
               THEN /\ status' = started
                    /\ UNCHANGED <<config, words, history, currInput,
                                   timeLeft, results, aiLoading, pendingCur,
                                   pendingOld, timeouts>>
               ELSE LET nextHistory == Append(history, currInput)
                    IN /\ history' = nextHistory
                       /\ currInput' = <<>>
                       /\ IF config.mode # "time"
                             /\ Len(nextHistory) >= Len(words)
                          THEN /\ Len(timeouts) < MaxDeferred
                               /\ status' = "finished"
                               /\ timeouts' = Append(timeouts, Env)
                          ELSE /\ status' = started
                               /\ UNCHANGED timeouts
                       /\ UNCHANGED <<config, words, timeLeft, results,
                                      aiLoading, pendingCur, pendingOld>>
          ELSE IF key \in Chars /\ ~mod
          THEN /\ Len(currInput) < MaxInput
               /\ currInput' = Append(currInput, key)
               /\ status' = started
               /\ UNCHANGED <<config, words, history, timeLeft, results,
                              aiLoading, pendingCur, pendingOld, timeouts>>
          ELSE UNCHANGED <<config, status, words, history, currInput,
                           timeLeft, results, aiLoading, pendingCur,
                           pendingOld, timeouts>>
  /\ TimerEffect
  /\ Dispatch
  /\ KeyCommit(key)

\* a key event reaches the handler
KeyDown == \E key \in Keys, mod \in BOOLEAN : handleKeyDown(key, mod)

\* the Restart Test and Next Test buttons: onClick={initGame}
ClickRestart ==
  /\ ~Crashed
  /\ initGame(config)
  /\ UNCHANGED config
  /\ TimerEffect
  /\ Dispatch
  /\ NoCommit

\* the configuration bar, rendered while idle: setConfig creates a new
\* initGame, which the effect on [initGame] runs
SetConfig(cfg) ==
  /\ ~Crashed
  /\ status = "idle"
  /\ config' = cfg
  /\ initGame(cfg)
  /\ TimerEffect
  /\ Dispatch
  /\ NoCommit

ClickMode == \E m \in GameModes : SetConfig([config EXCEPT !.mode = m])

ClickDuration ==
  /\ config.mode = "time"
  /\ \E d \in 1..MaxDuration : SetConfig([config EXCEPT !.duration = d])

ClickWordCount ==
  /\ config.mode = "words"
  /\ \E c \in 1..MaxWordCount : SetConfig([config EXCEPT !.wordCount = c])

ChangeTopic ==
  /\ config.mode = "ai"
  /\ \E t \in Topics \ {config.aiTopic} :
        SetConfig([config EXCEPT !.aiTopic = t])

\* the interval callback testing prev <= 0 where the source tests prev <= 1
Tick_LateFinish ==
  /\ ~Crashed
  /\ status = "running"
  /\ IF config.mode = "time"
     THEN IF timeLeft <= 0
          THEN /\ finishGame(timerEnv[1])
               /\ timeLeft' = 0
          ELSE /\ timeLeft' = timeLeft - 1
               /\ UNCHANGED <<status, results>>
     ELSE /\ timeLeft < MaxElapsed
          /\ timeLeft' = timeLeft + 1
          /\ UNCHANGED <<status, results>>
  /\ UNCHANGED <<config, words, history, currInput, aiLoading, pendingCur,
                 pendingOld, timeouts>>
  /\ TimerEffect
  /\ Dispatch
  /\ NoCommit

\* one firing of the interval of the timer effect
Tick ==
  /\ ~Crashed
  /\ status = "running"
  /\ IF config.mode = "time"
     THEN IF timeLeft <= 1
          THEN /\ finishGame(timerEnv[1])
               /\ timeLeft' = 0
          ELSE /\ timeLeft' = timeLeft - 1
               /\ UNCHANGED <<status, results>>
     ELSE /\ timeLeft < MaxElapsed
          /\ timeLeft' = timeLeft + 1
          /\ UNCHANGED <<status, results>>
  /\ UNCHANGED <<config, words, history, currInput, aiLoading, pendingCur,
                 pendingOld, timeouts>>
  /\ TimerEffect
  /\ Dispatch
  /\ NoCommit

\* the timer queue runs the finishGame queued by setTimeout(finishGame, 0)
FireTimeout ==
  /\ ~Crashed
  /\ timeouts # <<>>
  /\ finishGame(Head(timeouts))
  /\ timeouts' = Tail(timeouts)
  /\ raced' = 0
  /\ UNCHANGED <<config, words, history, currInput, timeLeft, aiLoading,
                 pendingCur, pendingOld>>
  /\ TimerEffect
  /\ DeferredCommit

\* one outstanding request is taken: of the current session or of an
\* earlier one
TakeRequest(current) ==
  IF current
  THEN pendingCur > 0 /\ pendingCur' = pendingCur - 1 /\ UNCHANGED pendingOld
  ELSE pendingOld > 0 /\ pendingOld' = pendingOld - 1 /\ UNCHANGED pendingCur

\* the lists the response texts are cleaned to
CleanLists == {cleanWords(text) : text \in Texts}

\* fetchAIWords after the await: setWords(list), setAiLoading(false)
aiResolvedTo(current, list) ==
  /\ ~Crashed
  /\ TakeRequest(current)
  /\ words' = list
  /\ aiLoading' = FALSE
  /\ UNCHANGED <<config, status, history, currInput, timeLeft, results,
                 timeouts>>
  /\ TimerEffect
  /\ Dispatch
  /\ NoCommit

\* fetchAIWords, catch branch: the service call threw
aiRejected(current) ==
  /\ ~Crashed
  /\ TakeRequest(current)
  /\ words' \in generateWords(FallbackCount)
  /\ aiLoading' = FALSE
  /\ UNCHANGED <<config, status, history, currInput, timeLeft, results,
                 timeouts>>
  /\ TimerEffect
  /\ Dispatch
  /\ NoCommit

\* fetchAIWords after the await: the service answered with text
aiResolved(current, text) == aiResolvedTo(current, cleanWords(text))

\* some response text arrives: \E text \in Texts : aiResolved(current, text)
AIResponse ==
  \E current \in BOOLEAN, list \in CleanLists : aiResolvedTo(current, list)

AIError == \E current \in BOOLEAN : aiRejected(current)

Next ==
  \/ KeyDown
  \/ ClickRestart
  \/ ClickMode
  \/ ClickDuration
  \/ ClickWordCount
  \/ ChangeTopic
  \/ Tick
  \/ FireTimeout
  \/ AIResponse
  \/ AIError

Spec == Init /\ [][Next]_vars

\* setInterval(..., 1000) keeps firing for as long as the interval exists,
\* which is as long as the app is mounted and status is running
SpecLive == Spec /\ WF_vars(Tick)

----------------------------------------------------------------------------
(* The statistics engine on its own: calculateStats applied to target      *)
(* words, typed history, counter and configuration drawn from bounded      *)
(* sets, with the durations the configuration bar offers.                  *)

\* longest word, typed or target, of the enumerated inputs
StatsMaxLen == 2
\* longest Target Word Sequence of the enumerated inputs
StatsMaxWords == 1
\* largest value of the counter of the enumerated inputs
StatsMaxElapsed == 2

\* the duration buttons of the configuration bar
DurationChoices == {15, 30, 60, 120}

StatsChars == {"a", "b"}

TargetWords == SeqsUpTo(StatsChars, StatsMaxLen) \ {<<>>}

TypedWords == SeqsUpTo(StatsChars, StatsMaxLen)

\* Scenarios A, B and C: <<target, typed history>>
ScenarioA == << << <<"t", "h", "e">>, <<"c", "a", "t">> >>,
                << <<"t", "h", "e">>, <<"c", "o", "t">> >> >>

ScenarioB == << << <<"h", "e", "l", "l", "o">> >>,
                << <<"h", "e", "l", "l", "o", "o">> >> >>

ScenarioC == << << <<"h", "e", "l", "l", "o">> >>,
                << <<"h", "e", "l">> >> >>

\* two words that hold a mistyped, a missed, a correct and an extra character
ScenarioMixed == << << <<"a", "b">>, <<"a">> >>, << <<"b">>, <<"a", "a">> >> >>

Scenarios == {ScenarioA, ScenarioB, ScenarioC, ScenarioMixed}

InitStats ==
  /\ config \in [mode : GameModes, duration : DurationChoices,
                 wordCount : {1}, aiTopic : {<<>>}]
  /\ status = "running"
  /\ \/ \E t \in SeqsUpTo(TargetWords, StatsMaxWords) :
          \E h \in SeqsUpTo(TypedWords, Len(t)) :
            words = t /\ history = h
     \/ \E in \in Scenarios : words = in[1] /\ history = in[2]
  /\ currInput = <<>>
  /\ timeLeft \in 0..StatsMaxElapsed
  /\ results = <<>>
  /\ aiLoading = FALSE
  /\ pendingCur = 0
  /\ pendingOld = 0
  /\ timerEnv = <<>>
  /\ timeouts = <<>>
  /\ raced = 0
  /\ lastCommit = <<>>

\* finishGame run on the values of the current state
FinishNow ==
  /\ status = "running"
  /\ finishGame(Env)
  /\ UNCHANGED <<config, words, history, currInput, timeLeft, aiLoading,
                 pendingCur, pendingOld, timerEnv, timeouts, raced,
                 lastCommit>>

NextStats == FinishNow

SpecStats == InitStats /\ [][NextStats]_vars

----------------------------------------------------------------------------
(* Claims                                                                  *)

\* C1: in every mode and after every event the Typed History is at most as
\* long as the Target Word Sequence.
C1_HistoryWithinTarget == Len(history) <= Len(words)

\* C2: every change of Session Status is not-started to running, running to
\* finished, or a reset to not-started; never not-started to finished and
\* never finished to running.
C2_StatusTransitions ==
  [][status' # status =>
       \/ status = "idle" /\ status' = "running"
       \/ status = "running" /\ status' = "finished"
       \/ status' = "idle"]_vars

\* C3: outside the fixed-duration mode, when the commit of the final word
\* made the history as long as the Target Word Sequence, the Results Snapshot
\* produced for it is computed from the history that includes that word.
C3_FinalWordCounted ==
  [][(FireTimeout /\ raced = 0 /\ Len(history) = Len(words))
       => results' = <<calculateStats(Env)>>]_vars

\* C4: in fixed-duration mode the tick that finishes the session produces
\* the statistics of the Typed History and Target Word Sequence as they stand
\* at that tick, with timeElapsed equal to the configured duration.
C4_TimerSnapshot ==
  [][(Tick /\ config.mode = "time" /\ status' = "finished")
       => /\ results' = <<calculateStats(EnvNext)>>
          /\ results'[1].timeElapsed = config.duration]_vars

RECURSIVE SumOver(_, _)
\* f[1] + ... + f[n]
SumOver(f, n) == IF n = 0 THEN 0 ELSE f[n] + SumOver(f, n - 1)

\* positions of typed word i that lie inside target word i
Overlap(i) == 1..Min(Len(history[i]), Len(words[i]))

\* C5: for len(H) <= len(T) the tallies are, summed over the indices i of H:
\* correct = overlapping positions that match, incorrect = overlapping
\* positions that differ, extra = max(0, len(H[i]) - len(T[i])), missed =
\* max(0, len(T[i]) - len(H[i])); hello/helloo gives 5/0/1/0 and hello/hel
\* gives correct 3, missed 2.
C5_Tallies ==
  (status = "finished" /\ results # <<>>) =>
    LET r == results[1]
        n == Len(history)
    IN /\ r.correctChars = SumOver([i \in 1..n |->
              Cardinality({p \in Overlap(i) : history[i][p] = words[i][p]})], n)
       /\ r.incorrectChars = SumOver([i \in 1..n |->
              Cardinality({p \in Overlap(i) : history[i][p] # words[i][p]})], n)
       /\ r.extraChars = SumOver([i \in 1..n |->
              Max(0, Len(history[i]) - Len(words[i]))], n)
       /\ r.missedChars = SumOver([i \in 1..n |->
              Max(0, Len(words[i]) - Len(history[i]))], n)
       /\ (<<words, history>> = ScenarioB =>
             /\ r.correctChars = 5 /\ r.incorrectChars = 0
             /\ r.extraChars = 1 /\ r.missedChars = 0)
       /\ (<<words, history>> = ScenarioC =>
             /\ r.correctChars = 3 /\ r.missedChars = 2)

\* a snapshot with overtyped, undertyped and mistyped characters was computed
C5_Witness ==
  /\ status = "finished"
  /\ results # <<>>
  /\ Len(history) = 2
  /\ results[1].correctChars > 0
  /\ results[1].incorrectChars > 0
  /\ results[1].extraChars > 0
  /\ results[1].missedChars > 0

\* w is n / d rounded to the nearest integer, halves rounded up
IsRounded(w, n, d) == 2 * d * w - d <= 2 * n /\ 2 * n < 2 * d * w + d

C7_StaleResponseDiscarded ==
  [][((\E text \in Texts : aiResolved(FALSE, text)) \/ aiRejected(FALSE))
       => words' = words]_vars

\* C8: while a word-generation request is pending (loading state), character,
\* backspace and word-boundary events leave Session Status, Typed History
\* and Current Input Buffer unchanged.
C8_NoTypingWhileLoading ==
  [][(aiLoading /\ \E key \in Keys \ {"Tab"}, mod \in BOOLEAN :
                      handleKeyDown(key, mod))
       => UNCHANGED <<status, history, currInput>>]_vars

\* C9: from the moment a session is running until it finishes or is
\* restarted, no event changes the Target Word Sequence.
C9_TargetFixedWhileRunning ==
  [][(status = "running" /\ status' = "running") => words' = words]_vars

\* the response text holds no letter
NoLetter(text) == \A i \in 1..Len(text) : text[i] \notin Letters

\* C10: in topic-generated mode with a non-empty topic, when the service
\* throws or returns text without an alphabetic token, the resulting Target
\* Word Sequence has between 1 and FallbackCount words, all lowercase
\* alphabetic, and Session Status stays not-started.
C10_FallbackOnFailure ==
  [][(/\ status = "idle"
      /\ \/ aiRejected(TRUE)
         \/ \E text \in Texts : NoLetter(text) /\ aiResolved(TRUE, text))
       => /\ Len(words') \in 1..FallbackCount
          /\ \A i \in 1..Len(words') : \A p \in 1..Len(words'[i]) :
               words'[i][p] \in {"a", "b"}
          /\ status' = "idle"]_vars

\* C11 (as stated): whenever a Backspace is handled right after a
\* word-boundary commit, the buffer holds the committed string again and the
\* history is what it was before the commit.
C11_BackspaceRestores ==
  (lastCommit # <<>> /\ lastCommit[1].rewound)
    => /\ currInput = lastCommit[1].currInput
       /\ history = lastCommit[1].history

\* C11 (amended): a Backspace handled right after a word-boundary commit
\* that did not finish the session restores the committed string to the
\* buffer and the history to what it was before the commit; after the commit
\* that finishes the session the Backspace is ignored.
C11_BackspaceRestoresUnlessFinished ==
  (lastCommit # <<>> /\ lastCommit[1].rewound)
    => IF status = "finished"
       THEN /\ currInput = <<>>
            /\ history = Append(lastCommit[1].history, lastCommit[1].currInput)
       ELSE /\ currInput = lastCommit[1].currInput
            /\ history = lastCommit[1].history

\* a non-empty word was committed and the Backspace right after has brought
\* it back
C11_Witness ==
  /\ lastCommit # <<>>
  /\ lastCommit[1].rewound
  /\ status = "running"
  /\ history = lastCommit[1].history
  /\ currInput # <<>>
  /\ currInput = lastCommit[1].currInput

\* C12: a Space handled while both the buffer and the history are empty
\* changes nothing, in every status: history, buffer, status and counter
\* keep their values and no empty entry is added to the history.
C12_LeadingSpaceNoOp ==
  [][(Len(currInput) = 0 /\ Len(history) = 0
       /\ \E mod \in BOOLEAN : handleKeyDown(" ", mod))
      => UNCHANGED <<history, currInput, status, timeLeft>>]_vars

\* C13: in fixed-word-count and topic mode, the Space whose commit makes the
\* history as long as the target words sets status to finished in that same
\* event; no tick of the timer is needed for it.
C13_LastCommitFinishes ==
  [][(/\ config.mode # "time"
      /\ history' = Append(history, currInput)
      /\ Len(history') >= Len(words)
      /\ \E mod \in BOOLEAN : handleKeyDown(" ", mod))
      => status' = "finished"]_vars

\* a fixed-word-count session was finished by the commit of its last word:
\* the counter never ticked and the queued finishGame has not run yet
C13_Witness ==
  /\ config.mode = "words"
  /\ Len(words) = config.wordCount
  /\ Len(history) = Len(words)
  /\ lastCommit # <<>>
  /\ history = Append(lastCommit[1].history, lastCommit[1].currInput)
  /\ status = "finished"
  /\ timeLeft = 0
  /\ timeouts # <<>>
  /\ results = <<>>

\* C14: after initialize or restart, and until the session starts, the
\* counter holds the configured duration in fixed-duration mode and 0 in
\* fixed-word-count and topic mode, whatever it held before.
C14_CounterInitialised ==
  status = "idle"
    => timeLeft = IF config.mode = "time" THEN config.duration ELSE 0

\* C15: whenever status is finished the buffer is empty, whether the session
\* was finished by its last commit or by the timer reaching zero in the
\* middle of a word.
C15_BufferEmptyWhenFinished == status = "finished" => currInput = <<>>

\* C16: a tick happens only while running. In fixed-duration mode it takes
\* exactly one off the counter, which stays within 0..duration, and the tick
\* that brings it to zero (and no earlier one) makes the session finished;
\* in the other modes it adds one. While status is not-started or finished
\* the counter changes only by an initialize. With the interval firing, a
\* running fixed-duration session does not stay running for ever: it becomes
\* finished unless it is restarted (the interval is gone once the app is
\* unmounted).
C16_TimerCounts ==
  /\ [][Tick => /\ status = "running"
                /\ IF config.mode = "time"
                   THEN /\ timeLeft' = timeLeft - 1
                        /\ timeLeft' \in 0..config.duration
                        /\ status' = IF timeLeft' = 0
                                     THEN "finished" ELSE "running"
                   ELSE /\ timeLeft' = timeLeft + 1
                        /\ status' = "running"]_vars
  /\ [][(status # "running" /\ timeLeft' # timeLeft) => status' = "idle"]_vars
  /\ [](config.mode = "time" => timeLeft \in 0..config.duration)
  /\ (status = "running" /\ config.mode = "time")
       ~> (status # "running" \/ Crashed)

\* a fixed-duration session of two seconds was counted down by two ticks and
\* finished by the second
C16_Witness ==
  /\ config.mode = "time"
  /\ config.duration = 2
  /\ status = "finished"
  /\ timeLeft = 0
  /\ results # <<>>

\* the restart command: the Tab key or one of the restart buttons
Restart == ClickRestart \/ \E mod \in BOOLEAN : handleKeyDown("Tab", mod)

\* the model lets this state handle one more event and issue one more request
WithinBounds ==
  /\ timeouts # <<>> => raced < MaxRace
  /\ (config.mode = "ai" /\ config.aiTopic # <<>>)
       => pendingOld + pendingCur < MaxOutstanding

\* C17: the restart command is accepted in every status of the mounted app,
\* and every restart leaves status not-started, the history and the buffer
\* empty and no results, with the configuration unchanged: a step that
\* leaves anything else is no restart.
C17_RestartResets ==
  /\ [][(\/ status' # "idle"
         \/ history' # <<>>
         \/ currInput' # <<>>
         \/ results' # <<>>
         \/ config' # config) => ~Restart]_vars
  /\ []((~Crashed /\ WithinBounds) => ENABLED Restart)

\* a session finished by its last commit was restarted before its queued
\* finishGame ran
C17_Witness ==
  /\ status = "idle"
  /\ timeouts # <<>>
  /\ history = <<>>
  /\ currInput = <<>>
  /\ results = <<>>

\* C18: in every reachable state the statistics computations read target
\* words only at positions the target has: the live preview of the render
\* does not find a history longer than the words, and neither does any
\* finishGame that is waiting to run, so none of them fails on a missing
\* target word.
C18_StatsReadWithinTarget ==
  /\ ~Crashed
  /\ \A i \in 1..Len(timeouts) : ~StatsThrows(timeouts[i])

\* positions of the letters of a response text
LetterPos(text) == {i \in 1..Len(text) : text[i] \in Letters}

\* no whitespace from position i to position j: what is left of text[i..j]
\* after the removal of the other characters is one piece
Joined(text, i, j) == \A k \in i..j : text[k] \notin Whitespace

\* the letters that begin a token: no earlier letter is joined to them
TokenStarts(text) ==
  {i \in LetterPos(text) :
     \A j \in LetterPos(text) : j < i => ~Joined(text, j, i)}

\* the k-th smallest element of a set of positions
NthOf(P, k) == CHOOSE p \in P : Cardinality({q \in P : q <= p}) = k

\* the token that begins at position i, in lower case
TokenAt(text, i) ==
  LET P == {j \in LetterPos(text) : j >= i /\ Joined(text, i, j)}
  IN [k \in 1..Cardinality(P) |-> LowerChar(text[NthOf(P, k)])]

\* the first AiSliceLimit whitespace-separated tokens of each response text
\* once its non-letter, non-whitespace characters are removed, in lower case
FirstTokens ==
  [text \in Texts |->
     [k \in 1..Min(Cardinality(TokenStarts(text)), AiSliceLimit) |->
        TokenAt(text, NthOf(TokenStarts(text), k))]]

\* the response texts that are cleaned to a given list
TextsOf == [list \in CleanLists |-> {text \in Texts : cleanWords(text) = list}]

\* the cleaned lists that are, for every response text cleaned to them, at
\* most AiSliceLimit non-empty strings of lowercase letters and the first
\* tokens of that text
SanitizedLists ==
  {list \in CleanLists :
     \A text \in TextsOf[list] :
        /\ Len(list) <= AiSliceLimit
        /\ \A k \in 1..Len(list) :
             /\ Len(list[k]) > 0
             /\ \A n \in 1..Len(list[k]) : list[k][n] = "b"
        /\ list = FirstTokens[text]}

\* C19: whatever text a response carries, the target words installed from it
\* are at most AiSliceLimit (50) tokens, each a non-empty string of lowercase
\* letters, and they are the first AiSliceLimit whitespace-separated tokens
\* of the text after its non-letter, non-whitespace characters are removed
\* and the rest is lower-cased.
C19_SanitizedResponse == [][AIResponse => words' \in SanitizedLists]_vars

\* the words of a response are installed whose text held more tokens than
\* are kept, and of one that held a character that is removed
C19_Witness ==
  /\ config.mode = "ai"
  /\ ~aiLoading
  /\ words \in CleanLists
  /\ words # <<>>
  /\ \E text \in TextsOf[words] :
        Cardinality(TokenStarts(text)) > AiSliceLimit
  /\ \E text \in TextsOf[words] : \E i \in 1..Len(text) : text[i] = "1"

\* C20: whenever results are present status is finished, and a finishGame
\* that was deferred with setTimeout leaves a session alone that was
\* restarted since: status is no longer the finished its commit set, and the
\* call neither sets it to finished nor stores results.
C20_ResultsOnlyWhenFinished ==
  /\ [](results # <<>> => status = "finished")
  /\ [][(FireTimeout /\ status # "finished")
         => (status' = status /\ results' = results)]_vars

\* C21: whenever status is not-started the history and the buffer are both
\* empty: a key that extends either of them also starts the session.
C21_EmptyUntilStarted ==
  status = "idle" => (history = <<>> /\ currInput = <<>>)

\* a session that was typed to its end was restarted: the finishGame
\* of the typed session is still queued, the new session is not started and
\* holds nothing of what was typed
C21_Witness ==
  /\ status = "idle"
  /\ raced > 0
  /\ timeouts # <<>>
  /\ Head(timeouts).config = config
  /\ lastCommit = <<>>
  /\ history = <<>>
  /\ currInput = <<>>
====
